---- MODULE Spec2Model ----
(***************************************************************************)
(* NoteRNNLoader (magenta/models/rl_tuner/note_rnn_loader.py) as a state   *)
(* machine: one loader instance in a TensorFlow graph that other loader    *)
(* instances may share, the files it reads, and the session it runs in.    *)
(*                                                                         *)
(* Names of variables in the graph are sequences of tokens, so that        *)
(* "q/RNN/Matrix:0" is <<"q", "/", "RNN", "/", "Matrix", ":", "0">> and    *)
(* the string operations of the code (startswith, find, slicing) are the   *)
(* operations on sequences.  Numbers of the network are small integers:    *)
(* the recurrent cell is a fixed deterministic function of weights, state  *)
(* and input, and a probability is its unnormalised mass 2^logit.          *)
(***************************************************************************)
EXTENDS Integers, Sequences, FiniteSets, TLC

VARIABLES
    experiment_dir,          \* checkpoints held by the directory, oldest first
    backup_checkpoint_file,  \* "None" or the backup checkpoint
    midi_primer,             \* "None", "missing" (no such file) or "primer"
    primer_file,             \* the melody in the primer file (note indices)
    training_file_list,      \* "None", "empty" or "files"
    hparams,                 \* [one_hot_length |-> vocabulary size]
    softmax_within_graph,
    constructed,             \* FALSE when __init__ raised and left no instance
    checkpoint_dir,          \* self.checkpoint_dir, "unset" while never assigned
    attrs,                   \* optional attributes that have been assigned on self
    session,                 \* "None" or "session"
    state_value,             \* batch_size x state_size matrix
    primer,                  \* self.primer once load_primer has set it
    priming_note,
    note_out,                \* the note the last call returned, <<>> if none
    softmax_out,             \* the output distribution of the last forward pass
    all_variables,           \* tf.all_variables(): names in creation order
    var_values,              \* value of each variable in the session
    placeholders,            \* generation of self.melody_sequence/lengths/initial_state
    softmax_reads,           \* generation of the placeholders self.softmax reads
    state_tensor_reads,      \* generation of the placeholders self.state_tensor reads
    n_tensors,               \* forward-pass wirings added to the graph
    pipelines,               \* queue-fed training pipelines built in the graph
    producers,               \* queue-runner threads, one entry per started coordinator
    restored_from,           \* path handed to saver.restore, "unattempted" before
    log,                     \* warnings written with tf.logging.warn
    last,                    \* the last call: [op, err, returned]
    start_state,             \* state_value when the current run of steps began
    fed                      \* notes fed by get_next_note_from_note since then

vars == <<experiment_dir, backup_checkpoint_file, midi_primer, primer_file,
          training_file_list, hparams, softmax_within_graph, constructed,
          checkpoint_dir, attrs, session, state_value, primer, priming_note,
          note_out, softmax_out, all_variables, var_values,
          placeholders, softmax_reads, state_tensor_reads, n_tensors,
          pipelines, producers, restored_from, log, last, start_state, fed>>

config == <<experiment_dir, backup_checkpoint_file, midi_primer, primer_file,
            training_file_list, hparams, softmax_within_graph>>

(***************************************************************************)
(* Bounds of the model.                                                    *)
(***************************************************************************)
NUM_CLASSES == 3     \* rl_tuner_ops.NUM_CLASSES, scaled down
MaxCkpts == 2        \* checkpoints in the experiment directory
MaxPrimerLen == 2    \* notes in the primer melody
MaxSteps == 2        \* get_next_note_from_note calls in one run of steps
MaxTensors == 3      \* forward-pass wirings in the graph
MaxBuilds == 2       \* build_graph runs on the instance
MaxProducers == 2    \* run_training_batch calls that start queue runners
StateSize == 2       \* cell.state_size
StateMod == 3        \* values an entry of the state takes

None == "None"

Range(s) == {s[i] : i \in 1..Len(s)}

\* A sequence given by a rule, written out entry by entry.
Listed(s) == s \o <<>>

RECURSIVE SumSeq(_)
SumSeq(s) == IF s = <<>> THEN 0 ELSE s[1] + SumSeq(Tail(s))

RECURSIVE Pow2(_)
Pow2(n) == IF n <= 0 THEN 1 ELSE 2 * Pow2(n - 1)

(***************************************************************************)
(* Program constants.                                                      *)
(***************************************************************************)
batch_size == 1
scope == <<"q">>
checkpoint_scope == <<"rnn_model">>
OtherScopes == {<<"q", "2">>, <<"r">>}   \* scopes of other loaders in the graph

(***************************************************************************)
(* String operations on names.                                             *)
(***************************************************************************)
startswith(s, p) == Len(p) <= Len(s) /\ SubSeq(s, 1, Len(p)) = p

\* str.find: the 0-based index of the first c in s, -1 when there is none.
find(s, c) ==
    IF \E i \in 1..Len(s) : s[i] = c
    THEN (CHOOSE i \in 1..Len(s) : s[i] = c /\ \A j \in 1..(i - 1) : s[j] # c) - 1
    ELSE -1

\* scope_str[idx + 1:] with idx the index of the first "/".
get_inner_scope(scope_str) ==
    SubSeq(scope_str, find(scope_str, "/") + 2, Len(scope_str))

\* scope_str[:idx] with idx the index of the first ":" (idx = -1 drops the
\* last token, as the slice does).
trim_variable_postfixes(scope_str) ==
    LET idx == find(scope_str, ":")
    IN  IF idx >= 0 THEN SubSeq(scope_str, 1, idx)
        ELSE SubSeq(scope_str, 1, Len(scope_str) - 1)

(***************************************************************************)
(* The graph's variable store.                                             *)
(***************************************************************************)
\* The variables one forward pass reads: those of the cell and of the
\* output layer, under the scope sc.
NetworkVarNames(sc) ==
    << sc \o <<"/", "RNN", "/", "Matrix", ":", "0">>,
       sc \o <<"/", "fully_connected", "/", "weights", ":", "0">> >>

\* tf.get_variable inside tf.variable_scope(..., reuse): with reuse the
\* variable must exist and is shared, without reuse it must be new.
get_variable(store, name, reuse) ==
    IF reuse
    THEN IF name \in Range(store)
         THEN [store |-> store, err |-> None]
         ELSE [store |-> store, err |-> "ValueError"]
    ELSE IF name \in Range(store)
         THEN [store |-> store, err |-> "ValueError"]
         ELSE [store |-> Append(store, name), err |-> None]

RECURSIVE GetVariables(_, _, _)
GetVariables(store, names, reuse) ==
    IF names = <<>> THEN [store |-> store, err |-> None]
    ELSE LET r == get_variable(store, Head(names), reuse)
         IN  IF r.err # None THEN r
             ELSE GetVariables(r.store, Tail(names), reuse)

\* The builder without variable sharing: every wiring registers variables of
\* its own, under a name made unique when the plain one is taken.
run_network_on_melody_unshared(store, sc, reuse) ==
    LET names == NetworkVarNames(sc)
        fresh == [i \in 1..Len(names) |->
                    IF names[i] \in Range(store)
                    THEN names[i] \o <<"_", Len(store) + i>>
                    ELSE names[i]]
    IN  [store |-> store \o fresh, err |-> None]

\* The closure run_network_on_melody as a graph builder: dynamic_rnn and the
\* linear layer get their variables in the variable scope they are called in.
run_network_on_melody(store, sc, reuse) ==
    GetVariables(store, NetworkVarNames(sc), reuse)

\* NoteRNNLoader.variables().
variables(store) ==
    SelectSeq(store, LAMBDA v : startswith(v, scope))

\* The variables registered under this instance's scope.
UnderScope(store, sc) ==
    {v \in Range(store) : startswith(v, sc \o <<"/">>)}

CheckpointName(v) ==
    checkpoint_scope \o <<"/">> \o trim_variable_postfixes(get_inner_scope(v))

\* get_variable_name_dict: a later variable overwrites an earlier one that
\* has the same checkpoint name.
RECURSIVE VarDict(_)
VarDict(vs) ==
    IF vs = <<>> THEN {}
    ELSE LET v == vs[Len(vs)]
             rest == VarDict(SubSeq(vs, 1, Len(vs) - 1))
         IN  {e \in rest : e[1] # CheckpointName(v)} \cup {<<CheckpointName(v), v>>}

get_variable_name_dict(store) == VarDict(variables(store))

(***************************************************************************)
(* The numbers of the network.                                             *)
(***************************************************************************)
get_zero_state ==
    Listed([b \in 1..batch_size |-> Listed([i \in 1..StateSize |-> 0])])

\* rl_tuner_ops.make_onehot.
make_onehot(int_list, one_hot_length) ==
    Listed([k \in 1..Len(int_list) |->
        Listed([j \in 1..one_hot_length |->
                   IF j - 1 = int_list[k] THEN 1 ELSE 0])])

\* np.argmax: the 0-based index of the first largest entry.
argmax(x) ==
    (CHOOSE i \in 1..Len(x) :
        /\ \A j \in 1..Len(x) : x[j] <= x[i]
        /\ \A j \in 1..(i - 1) : x[j] < x[i]) - 1

get_note_from_softmax(softmax) ==
    LET note_idx == argmax(softmax)
        note_enc == make_onehot(<<note_idx>>, NUM_CLASSES)
    IN  note_enc[1]

HotIndex(x) == SumSeq(Listed([j \in 1..Len(x) |-> (j - 1) * x[j]]))

\* One step of the recurrent cell with weights w on state s and input x.
CellStep(w, s, x) ==
    Listed([i \in 1..Len(s) |-> (2 * s[i] + HotIndex(x) + i + w) % StateMod])

\* The output layer and the softmax over it, as unnormalised masses.
Softmax(w, h, one_hot_length) ==
    Listed([j \in 1..one_hot_length |->
               Pow2((SumSeq(h) * j + h[1] + w) % StateMod)])

\* tf.nn.dynamic_rnn on one batch element: the states after each of the
\* first lens inputs, and the state after the last of them.
RECURSIVE dynamic_rnn(_, _, _, _)
dynamic_rnn(w, m_seq, lens, initial_state) ==
    IF m_seq = <<>> \/ lens <= 0
    THEN [outputs |-> <<>>, final_state |-> initial_state]
    ELSE LET s == CellStep(w, initial_state, Head(m_seq))
             r == dynamic_rnn(w, Tail(m_seq), lens - 1, s)
         IN  [outputs |-> <<s>> \o r.outputs, final_state |-> r.final_state]

\* session.run([state_tensor, softmax]) on a batch of one: the rows of the
\* flattened outputs and the final state.
RunNetwork(w, m_seq, lens, initial_state, one_hot_length) ==
    LET r == dynamic_rnn(w, m_seq, lens, initial_state[1])
    IN  [softmax |-> Listed([t \in 1..Len(r.outputs) |->
                                Softmax(w, r.outputs[t], one_hot_length)]),
         state |-> <<r.final_state>>]

(***************************************************************************)
(* Files.                                                                  *)
(***************************************************************************)
Ckpts == <<"ckpt1", "ckpt2", "ckpt3", "ckpt4">>
Dirs == {"experiment_dir", "empty_dir"}
DirContents(d) == IF d = "experiment_dir" THEN experiment_dir ELSE <<>>

\* tf.train.latest_checkpoint: the most recent checkpoint of the directory.
latest_checkpoint(contents) ==
    IF contents = <<>> THEN None ELSE contents[Len(contents)]

\* The number that stands for the weights a variable holds.
WeightNum(value) ==
    IF value = "random" THEN 0
    ELSE IF value = "backup" THEN 1
    ELSE 1 + (CHOOSE i \in 1..Len(Ckpts) : Ckpts[i] = value)

\* MelodyEncoderDecoder.encode: the melody as one-hot model inputs.
encode(melody) == make_onehot(melody, NUM_CLASSES)

Melodies ==
    {[i \in 1..n |-> (i * k) % NUM_CLASSES] : n \in 1..MaxPrimerLen, k \in 1..2}
Notes == {make_onehot(<<i>>, NUM_CLASSES)[1] : i \in 0..(NUM_CLASSES - 1)}
OneHotLengths == {NUM_CLASSES - 1, NUM_CLASSES, NUM_CLASSES + 1}
Distributions(n) == [1..n -> {1, 2}]

(***************************************************************************)
(* Construction.                                                           *)
(***************************************************************************)
\* build_graph on a graph holding the variables `store`: new placeholders,
\* the training queue when a training file list is given, the forward pass
\* under variable_scope(scope), and the training wiring under reuse=True.
build_graph(store, tfl) ==
    LET first == run_network_on_melody(store, scope, FALSE)
        train == IF first.err = None /\ tfl # None
                 THEN run_network_on_melody(first.store, scope, TRUE)
                 ELSE first
    IN  [store |-> train.store,
         err |-> train.err,
         queues |-> IF tfl # None THEN 1 ELSE 0,
         wirings |-> IF first.err # None THEN 0
                     ELSE IF tfl # None THEN 2 ELSE 1]

Init ==
    /\ experiment_dir \in {SubSeq(Ckpts, 1, n) : n \in 0..MaxCkpts}
    /\ backup_checkpoint_file \in {None, "backup"}
    /\ midi_primer \in {None, "missing", "primer"}
    /\ primer_file \in IF midi_primer = "primer" THEN Melodies ELSE {<<>>}
    /\ training_file_list \in {None, "empty", "files"}
    /\ hparams \in [one_hot_length : OneHotLengths]
    /\ softmax_within_graph \in BOOLEAN
       \* get_padded_batch on an empty file list either builds a queue over
       \* no files or raises, which ends __init__ inside build_graph
    /\ constructed \in IF training_file_list = "empty" THEN BOOLEAN ELSE {TRUE}
    /\ checkpoint_dir = "unset"
    /\ session = None
    /\ state_value = get_zero_state
    /\ LET g == build_graph(<<>>, training_file_list)
       IN  IF constructed
           THEN /\ all_variables = g.store
                /\ pipelines = g.queues
                /\ n_tensors = g.wirings
                /\ placeholders = 1
                /\ softmax_reads = 1
                /\ state_tensor_reads = 1
                /\ last = [op |-> "__init__", err |-> None, returned |-> None]
           ELSE /\ all_variables = <<>>
                /\ pipelines = 0
                /\ n_tensors = 0
                /\ placeholders = 1
                /\ softmax_reads = 0
                /\ state_tensor_reads = 0
                /\ last = [op |-> "__init__", err |-> "ValueError", returned |-> None]
    /\ var_values = [v \in Range(all_variables) |-> "uninit"]
       \* load_primer, called when a primer path is given
    /\ IF constructed /\ midi_primer = "primer"
       THEN attrs = {"primer"} /\ primer = primer_file /\ log = {}
       ELSE /\ attrs = {}
            /\ primer = <<>>
            /\ log = IF constructed /\ midi_primer = "missing"
                     THEN {"no_primer_file"} ELSE {}
    /\ priming_note = <<>>
    /\ note_out = <<>>
    /\ softmax_out = <<>>
    /\ producers = <<>>
    /\ restored_from = "unattempted"
    /\ start_state = state_value
    /\ fed = <<>>

(***************************************************************************)
(* Running the network in the session.                                     *)
(***************************************************************************)
OwnVars == NetworkVarNames(scope)

Initialized(values) ==
    \A i \in 1..Len(OwnVars) :
        OwnVars[i] \in DOMAIN values /\ values[OwnVars[i]] # "uninit"

Weight(values) ==
    SumSeq(Listed([i \in 1..Len(OwnVars) |-> WeightNum(values[OwnVars[i]])]))

\* The errors session.run([state_tensor, softmax], feed) can end in, for a
\* feed of inputs of the given width; none when the run succeeds.
RunErrors(sess, values, width) ==
    IF sess = None THEN {"AttributeError"}
    ELSE IF width # hparams.one_hot_length THEN {"ValueError"}
    ELSE (IF softmax_reads # placeholders \/ state_tensor_reads # placeholders
          THEN {"InvalidArgumentError"} ELSE {})
         \cup (IF Initialized(values) THEN {} ELSE {"FailedPreconditionError"})

Result(op, err, returned) == [op |-> op, err |-> err, returned |-> returned]

\* The values after variables were added to the graph: new ones hold nothing.
Extend(values, store) ==
    [v \in Range(store) |-> IF v \in DOMAIN values THEN values[v] ELSE "uninit"]

\* np.argmax and np.reshape read a matrix row after row.
RECURSIVE Flat(_)
Flat(rows) == IF rows = <<>> THEN <<>> ELSE Head(rows) \o Flat(Tail(rows))

(***************************************************************************)
(* Initialization modes.                                                   *)
(***************************************************************************)
initialize_new ==
    /\ constructed
    /\ session' = "session"
    /\ var_values' = [v \in DOMAIN var_values |-> "random"]
    /\ last' = Result("initialize_new", None, None)
    /\ start_state' = state_value
    /\ fed' = <<>>
    /\ UNCHANGED <<config, constructed, checkpoint_dir, attrs, state_value,
                   primer, priming_note, note_out, softmax_out, all_variables,
                   placeholders, softmax_reads, state_tensor_reads, n_tensors,
                   pipelines, producers, restored_from, log>>

\* The body of restore_vars_from_checkpoint with session sess on a directory
\* holding `contents`: the path handed to saver.restore, the error raised,
\* and the values of the variables afterwards.
RestoreVars(sess, contents) ==
    LET var_dict == get_variable_name_dict(all_variables)
        latest == latest_checkpoint(contents)
        checkpoint_file == IF latest = None THEN backup_checkpoint_file
                           ELSE latest
        err == IF checkpoint_file = None THEN "SaverError"
               ELSE IF sess = None THEN "AttributeError"
               ELSE None
    IN  [path |-> checkpoint_file,
         err |-> err,
         values |-> IF err # None THEN var_values
                    ELSE [v \in DOMAIN var_values |->
                            IF \E e \in var_dict : e[2] = v
                            THEN checkpoint_file ELSE var_values[v]]]

restore_vars_from_checkpoint(d) ==
    /\ constructed
    /\ LET r == RestoreVars(session, DirContents(d))
       IN  /\ var_values' = r.values
           /\ restored_from' = r.path
           /\ last' = Result("restore_vars_from_checkpoint", r.err, None)
    /\ start_state' = state_value
    /\ fed' = <<>>
    /\ UNCHANGED <<config, constructed, checkpoint_dir, attrs, session,
                   state_value, primer, priming_note, note_out, softmax_out,
                   all_variables, placeholders, softmax_reads,
                   state_tensor_reads, n_tensors, pipelines, producers, log>>

initialize_and_restore ==
    /\ constructed
    /\ session' = "session"
    /\ IF checkpoint_dir = "unset"
       THEN /\ last' = Result("initialize_and_restore", "AttributeError", None)
            /\ UNCHANGED <<var_values, restored_from>>
       ELSE LET r == RestoreVars("session", DirContents(checkpoint_dir))
            IN  /\ var_values' = r.values
                /\ restored_from' = r.path
                /\ last' = Result("initialize_and_restore", r.err, None)
    /\ start_state' = state_value
    /\ fed' = <<>>
    /\ UNCHANGED <<config, constructed, checkpoint_dir, attrs, state_value,
                   primer, priming_note, note_out, softmax_out, all_variables,
                   placeholders, softmax_reads, state_tensor_reads, n_tensors,
                   pipelines, producers, log>>

(***************************************************************************)
(* Priming and stepping.                                                   *)
(***************************************************************************)
PrimeErrors(sess, values) ==
    IF "primer" \notin attrs THEN {"AttributeError"}
    ELSE RunErrors(sess, values, NUM_CLASSES)

\* The forward pass of prime_model: the whole primer as one batch of one,
\* fed the stored state as initial state.
PrimeRun(w, sv) ==
    RunNetwork(w, encode(primer), Len(primer), sv, hparams.one_hot_length)

\* prime_model in session sess with the variables holding `values`.
Prime(op, sess, values) ==
    LET errs == PrimeErrors(sess, values)
    IN  IF errs # {}
        THEN /\ \E e \in errs : last' = Result(op, e, None)
             /\ start_state' = state_value
             /\ UNCHANGED <<state_value, softmax_out, priming_note, attrs>>
        ELSE LET r == PrimeRun(Weight(values), state_value)
             IN  /\ state_value' = r.state
                 /\ softmax_out' = r.softmax
                 /\ priming_note' =
                        get_note_from_softmax(r.softmax[Len(r.softmax)])
                 /\ attrs' = attrs \cup {"priming_note"}
                 /\ last' = Result(op, None, None)
                 /\ start_state' = r.state

prime_model ==
    /\ constructed
    /\ Prime("prime_model", session, var_values)
    /\ fed' = <<>>
    /\ UNCHANGED <<config, constructed, checkpoint_dir, session, primer,
                   note_out, all_variables, var_values, placeholders,
                   softmax_reads, state_tensor_reads, n_tensors, pipelines,
                   producers, restored_from, log>>

restore_initialize_prime ==
    /\ constructed
    /\ session' = "session"
    /\ IF checkpoint_dir = "unset"
       THEN /\ last' =
                Result("restore_initialize_prime", "AttributeError", None)
            /\ start_state' = state_value
            /\ UNCHANGED <<var_values, restored_from, state_value, softmax_out,
                           priming_note, attrs>>
       ELSE LET r == RestoreVars("session", DirContents(checkpoint_dir))
            IN  /\ var_values' = r.values
                /\ restored_from' = r.path
                /\ IF r.err # None
                   THEN /\ last' =
                            Result("restore_initialize_prime", r.err, None)
                        /\ start_state' = state_value
                        /\ UNCHANGED <<state_value, softmax_out, priming_note,
                                       attrs>>
                   ELSE Prime("restore_initialize_prime", "session", r.values)
    /\ fed' = <<>>
    /\ UNCHANGED <<config, constructed, checkpoint_dir, primer, note_out,
                   all_variables, placeholders, softmax_reads,
                   state_tensor_reads, n_tensors, pipelines, producers, log>>

\* The step that forgets the stored state and starts from zeros.
NextNoteRun_from_zero(w, note, sv) ==
    RunNetwork(w, <<note>>, 1, get_zero_state, hparams.one_hot_length)

\* The forward pass of get_next_note_from_note: the note as a sequence of
\* length one, fed the stored state as initial state.
NextNoteRun(w, note, sv) ==
    RunNetwork(w, <<note>>, 1, sv, hparams.one_hot_length)

get_next_note_from_note(note) ==
    /\ constructed
    /\ Len(fed) < MaxSteps
    /\ LET errs == RunErrors(session, var_values, Len(note))
       IN  IF errs # {}
           THEN /\ \E e \in errs :
                     last' = Result("get_next_note_from_note", e, None)
                /\ UNCHANGED <<state_value, softmax_out, note_out, fed>>
           ELSE LET r == NextNoteRun(Weight(var_values), note, state_value)
                IN  /\ state_value' = r.state
                    /\ softmax_out' = r.softmax
                    /\ note_out' = get_note_from_softmax(Flat(r.softmax))
                    /\ fed' = Append(fed, note)
                    /\ last' = Result("get_next_note_from_note", None, "note")
    /\ UNCHANGED <<config, constructed, checkpoint_dir, attrs, session, primer,
                   priming_note, all_variables, var_values, placeholders,
                   softmax_reads, state_tensor_reads, n_tensors, pipelines,
                   producers, restored_from, log, start_state>>

\* get_note_from_softmax called on a distribution over the vocabulary.
note_from_softmax(softmax) ==
    /\ constructed
    /\ note_out' = get_note_from_softmax(softmax)
    /\ softmax_out' = <<softmax>>
    /\ last' = Result("get_note_from_softmax", None, "note")
    /\ UNCHANGED <<config, constructed, checkpoint_dir, attrs, session,
                   state_value, primer, priming_note, all_variables,
                   var_values, placeholders, softmax_reads, state_tensor_reads,
                   n_tensors, pipelines, producers, restored_from, log,
                   start_state, fed>>

(***************************************************************************)
(* Re-entering the builder.                                                *)
(***************************************************************************)
\* __call__: the forward pass wired once more under reuse=True.
call ==
    /\ constructed
    /\ n_tensors < MaxTensors
    /\ LET r == run_network_on_melody(all_variables, scope, TRUE)
       IN  /\ all_variables' = r.store
           /\ var_values' = Extend(var_values, r.store)
           /\ IF r.err = None
              THEN /\ n_tensors' = n_tensors + 1
                   /\ state_tensor_reads' = placeholders
                   /\ last' = Result("__call__", None,
                                     IF softmax_within_graph THEN "softmax"
                                     ELSE "logits")
              ELSE /\ last' = Result("__call__", r.err, None)
                   /\ UNCHANGED <<n_tensors, state_tensor_reads>>
    /\ UNCHANGED <<config, constructed, checkpoint_dir, attrs, session,
                   state_value, primer, priming_note, note_out, softmax_out,
                   placeholders, softmax_reads, pipelines, producers,
                   restored_from, log, start_state, fed>>

\* build_graph run again on the instance.
rebuild ==
    /\ constructed
    /\ placeholders < MaxBuilds
    /\ LET g == build_graph(all_variables, training_file_list)
       IN  /\ placeholders' = placeholders + 1
           /\ pipelines' = pipelines + g.queues
           /\ all_variables' = g.store
           /\ var_values' = Extend(var_values, g.store)
           /\ n_tensors' = n_tensors + g.wirings
           /\ last' = Result("build_graph", g.err, None)
           /\ IF g.wirings > 0
              THEN /\ softmax_reads' = placeholders + 1
                   /\ state_tensor_reads' = placeholders + 1
              ELSE UNCHANGED <<softmax_reads, state_tensor_reads>>
    /\ UNCHANGED <<config, constructed, checkpoint_dir, attrs, session,
                   state_value, primer, priming_note, note_out, softmax_out,
                   producers, restored_from, log, start_state, fed>>

\* Another NoteRNNLoader is constructed in the same graph under scope sc.
construct_other(sc) ==
    /\ constructed
    /\ UnderScope(all_variables, sc) = {}
    /\ LET r == run_network_on_melody(all_variables, sc, FALSE)
       IN  /\ all_variables' = r.store
           /\ var_values' = Extend(var_values, r.store)
    /\ UNCHANGED <<config, constructed, checkpoint_dir, attrs, session,
                   state_value, primer, priming_note, note_out, softmax_out,
                   placeholders, softmax_reads, state_tensor_reads, n_tensors,
                   pipelines, producers, restored_from, log, last,
                   start_state, fed>>

(***************************************************************************)
(* Training batches.                                                       *)
(***************************************************************************)
\* How the read of one batch can end once the queue runners are started.
BatchOutcomes ==
    (IF training_file_list = "files" /\ Initialized(var_values)
     THEN {None} ELSE {})
    \cup (IF Initialized(var_values) THEN {"OutOfRangeError"}
          ELSE {"FailedPreconditionError"})

run_training_batch ==
    /\ constructed
    /\ IF training_file_list = None
       THEN /\ log' = log \cup {"no_training_file"}
            /\ last' = Result("run_training_batch", None, None)
            /\ UNCHANGED producers
       ELSE IF session = None
       THEN /\ last' = Result("run_training_batch", "ValueError", None)
            /\ UNCHANGED <<log, producers>>
       ELSE /\ Len(producers) < MaxProducers
            /\ \E e \in BatchOutcomes :
                 IF e = None
                 THEN /\ producers' = Append(producers, "stop_requested")
                      /\ last' = Result("run_training_batch", None, "batch")
                 ELSE /\ producers' = Append(producers, "running")
                      /\ last' = Result("run_training_batch", e, None)
            /\ UNCHANGED log
    /\ UNCHANGED <<config, constructed, checkpoint_dir, attrs, session,
                   state_value, primer, priming_note, note_out, softmax_out,
                   all_variables, var_values, placeholders, softmax_reads,
                   state_tensor_reads, n_tensors, pipelines, restored_from,
                   start_state, fed>>

\* A queue-runner thread whose coordinator asked it to stop ends.
producer_exit(i) ==
    /\ producers[i] = "stop_requested"
    /\ producers' = [producers EXCEPT ![i] = "exited"]
    /\ UNCHANGED <<config, constructed, checkpoint_dir, attrs, session,
                   state_value, primer, priming_note, note_out, softmax_out,
                   all_variables, var_values, placeholders, softmax_reads,
                   state_tensor_reads, n_tensors, pipelines, restored_from,
                   log, last, start_state, fed>>

Next ==
    \/ initialize_new
    \/ initialize_and_restore
    \/ restore_initialize_prime
    \/ \E d \in Dirs : restore_vars_from_checkpoint(d)
    \/ prime_model
    \/ \E note \in Notes : get_next_note_from_note(note)
    \/ call
    \/ rebuild
    \/ \E sc \in OtherScopes : construct_other(sc)
    \/ run_training_batch
    \/ \E i \in 1..Len(producers) : producer_exit(i)
    \/ \E d \in Distributions(hparams.one_hot_length) : note_from_softmax(d)

Spec == Init /\ [][Next]_vars

(***************************************************************************)
(* The parts of the system the properties below are checked on.  Each is   *)
(* Init with the actions that write what its properties read.  The         *)
(* actions left out of a part change none of the values its properties     *)
(* read: re-entering the builder can only make a later session.run fail,   *)
(* and a failed run leaves the instance as it was.                         *)
(***************************************************************************)
\* Initialization: the three modes, the restore they share, and priming.
NextRestore ==
    \/ initialize_new
    \/ initialize_and_restore
    \/ restore_initialize_prime
    \/ \E d \in Dirs : restore_vars_from_checkpoint(d)
    \/ prime_model

SpecRestore == Init /\ [][NextRestore]_vars

\* The recurrent state: priming and stepping in a session whose variables
\* were initialized or restored, on an instance without training data whose
\* experiment directory holds checkpoints.
InitStep ==
    /\ Init
    /\ training_file_list = None
    /\ softmax_within_graph
    /\ backup_checkpoint_file = None
    /\ Len(experiment_dir) = MaxCkpts

NextStep ==
    \/ initialize_new
    \/ \E d \in Dirs : restore_vars_from_checkpoint(d)
    \/ prime_model
    \/ \E note \in Notes : get_next_note_from_note(note)

SpecStep == InitStep /\ [][NextStep]_vars

\* The graph: re-entries of the builder and other loaders in the graph.
NextGraph ==
    \/ call
    \/ rebuild
    \/ \E sc \in OtherScopes : construct_other(sc)

SpecGraph == Init /\ [][NextGraph]_vars

\* Training batches and the queue-runner threads they start.
NextTrain ==
    \/ initialize_new
    \/ run_training_batch
    \/ \E i \in 1..Len(producers) : producer_exit(i)

SpecTrain == Init /\ [][NextTrain]_vars

\* get_note_from_softmax on its own, over every distribution of the size
\* the network emits.
NextSoftmax ==
    \E d \in Distributions(hparams.one_hot_length) : note_from_softmax(d)

SpecSoftmax == Init /\ [][NextSoftmax]_vars

(***************************************************************************)
(* Properties.                                                             *)
(***************************************************************************)
RestoreModes == {"initialize_and_restore", "restore_initialize_prime"}
InitModes == {"initialize_new"} \cup RestoreModes

\* C1: once initialize_and_restore or restore_initialize_prime has run, the
\* file restored is the most recent checkpoint of the experiment directory
\* when it holds one and the backup checkpoint file otherwise, and after
\* restore-only the recurrent state is all-zero.
C1_RestoreFromExperimentDir ==
    last.op \in RestoreModes =>
        /\ restored_from = IF experiment_dir # <<>>
                           THEN latest_checkpoint(experiment_dir)
                           ELSE backup_checkpoint_file
        /\ last.op = "initialize_and_restore" => state_value = get_zero_state

\* C2: with the primer path absent or naming no file, every initialization
\* mode ends without error, with priming skipped, a warning logged and the
\* recurrent state all-zero.
C2_MissingPrimerIsSkipped ==
    (midi_primer \in {None, "missing"} /\ last.op \in InitModes) =>
        /\ last.err = None
        /\ "priming_note" \notin attrs
        /\ "no_primer_file" \in log
        /\ state_value = get_zero_state

\* C2, the part about errors alone.
C2_MissingPrimerNoError ==
    (midi_primer \in {None, "missing"} /\ last.op \in InitModes) =>
        last.err = None

\* C3: with no checkpoint in the directory and no backup path, restoration
\* fails with the resolver's own "no checkpoint available" error, and
\* saver.restore is never handed a missing path.
C3_NoCheckpointIsExplicitError ==
    (/\ last.op = "restore_vars_from_checkpoint"
     /\ experiment_dir = <<>>
     /\ backup_checkpoint_file = None) =>
        /\ last.err = "NoCheckpointAvailable"
        /\ restored_from # None

\* C4: with training_file_list None or empty, run_training_batch returns
\* nothing, logs a warning, raises nothing, and no queue-fed pipeline is
\* built or started; the recurrent state is as it was.
C4_NoTrainingSourceIsRefused ==
    (training_file_list \in {None, "empty"} /\ last.op = "run_training_batch") =>
        /\ last.err = None
        /\ last.returned = None
        /\ "no_training_file" \in log
        /\ pipelines = 0
        /\ producers = <<>>
        /\ state_value = get_zero_state

\* C5: after get_next_note_from_note was called on the notes fed, one after
\* the other from the state start_state, the recurrent state, the output
\* distribution and the note returned are those of one forward pass over the
\* whole sequence fed, begun in start_state.
C5_StepsEqualBatchPass ==
    (constructed /\ fed # <<>>) =>
        LET r == RunNetwork(Weight(var_values), fed, Len(fed), start_state,
                            hparams.one_hot_length)
        IN  /\ state_value = r.state
            /\ softmax_out = <<r.softmax[Len(fed)]>>
            /\ note_out = get_note_from_softmax(r.softmax[Len(fed)])

\* C5 witness: a run of steps of full length, begun in a state that priming
\* left, has passed through a state that is not all-zero.
C5_Witness ==
    /\ Len(fed) = MaxSteps
    /\ Len(fed) >= 2
    /\ start_state # get_zero_state
    /\ state_value # start_state
    /\ last.op = "get_next_note_from_note"
    /\ last.err = None

\* C6: the note get_note_from_softmax returns has the length of the
\* vocabulary of the hyperparameters, one set position and zeros elsewhere,
\* and the set position is the first largest entry of the distribution.
C6_NoteIsOneHotOfVocabulary ==
    last.op = "get_note_from_softmax" =>
        /\ Len(note_out) = hparams.one_hot_length
        /\ \A j \in 1..Len(note_out) : note_out[j] \in {0, 1}
        /\ Cardinality({j \in 1..Len(note_out) : note_out[j] = 1}) = 1
        /\ \A j \in 1..Len(note_out) :
              note_out[j] = 1 <=>
                  /\ \A k \in 1..Len(softmax_out[1]) :
                        softmax_out[1][k] <= softmax_out[1][j]
                  /\ \A k \in 1..(j - 1) :
                        softmax_out[1][k] < softmax_out[1][j]

\* The number of variables under the scope after the first forward pass of
\* the first build.
FirstBuildCount ==
    Cardinality(UnderScope(run_network_on_melody(<<>>, scope, FALSE).store,
                           scope))

\* C7: whatever re-entered the builder under the instance's scope - the
\* training wiring, __call__, build_graph again - the variables under the
\* scope are as many as after the first build, and none is registered twice.
C7_NoDuplicateVariables ==
    constructed =>
        /\ Cardinality(UnderScope(all_variables, scope)) = FirstBuildCount
        /\ Cardinality(Range(all_variables)) = Len(all_variables)

\* C7 witness: the training wiring, __call__ and a second build_graph have
\* all re-entered the builder.
C7_Witness ==
    /\ training_file_list = "files"
    /\ placeholders >= 2
    /\ n_tensors >= 3
    /\ last.op = "__call__"

\* C8: the state a prime_model call leaves is the final state of the forward
\* pass over the primer begun in the all-zero state.
C8_PrimingResetsState ==
    (last.op = "prime_model" /\ last.err = None) =>
        state_value = RunNetwork(Weight(var_values), encode(primer),
                                 Len(primer), get_zero_state,
                                 hparams.one_hot_length).state

\* C9: when a run_training_batch call has ended, by returning or by raising,
\* every producer started so far has been signaled to stop and has ended.
C9_ProducersStoppedAndJoined ==
    last.op = "run_training_batch" =>
        \A i \in 1..Len(producers) : producers[i] = "exited"

\* C10: get_variable_name_dict pairs the variables under this instance's
\* scope, all of them and no others, one to one with their checkpoint names.
C10_NameDictIsBijection ==
    LET var_dict == get_variable_name_dict(all_variables)
        own == UnderScope(all_variables, scope)
    IN  /\ {e[2] : e \in var_dict} = own
        /\ \A v \in own : Cardinality({e \in var_dict : e[2] = v}) = 1
        /\ \A e \in var_dict : e[1] = CheckpointName(e[2])
        /\ \A e1, e2 \in var_dict : e1[1] = e2[1] => e1 = e2

====
